---- MODULE Spec2Model ----
(***************************************************************************)
(* Historical-data acquisition (Backend/get_data.py), the print-only       *)
(* client (main.py), the query service (Backend/app.py) and the CSV loader *)
(* (Backend/backtester.py) of Backtester-v2.                               *)
(*                                                                         *)
(* Two flows run in get_data.py: the caller (module-level script) and the  *)
(* background dispatch thread (EClient.run) that invokes the IBClient      *)
(* callbacks.  Strings that the code transforms (file names) are sequences *)
(* of one-character strings; timestamps are epoch seconds.                 *)
(***************************************************************************)
EXTENDS Integers, Sequences, FiniteSets, TLC

\* ---------------------------------------------------------------- bounds
\* most bar events the upstream feed delivers for the one request
MaxBars == 2

\* ------------------------------------------------------ program constants
timeout == 30

INFORMATIONAL_short == {2104, 2106}

INFORMATIONAL == {2104, 2106, 2158}

None == [none |-> TRUE]

\* ------------------------------------------------------------- strings
replace(s, old, new) == [i \in DOMAIN s |-> IF s[i] = old THEN new ELSE s[i]]

upper_char(c) ==
    CASE c = "a" -> "A"
      [] c = "p" -> "P"
      [] c = "l" -> "L"
      [] c = "d" -> "D"
      [] OTHER -> c

upper(s) == [i \in DOMAIN s |-> upper_char(s[i])]

path_join(dir, name) == dir \o <<"/">> \o name

symbol == <<"A", "A", "P", "L">>
duration == <<"5", " ", "D">>
bar_size == <<"1", " ", "h", "o", "u", "r">>
folder == <<"d", "a", "t", "a">>
DATA_FOLDER == <<"d", "a", "t", "a">>
dot_csv == <<".", "c", "s", "v">>

csv_filename ==
    path_join(folder,
              symbol \o <<"_">> \o replace(duration, " ", "_") \o <<"_">>
                     \o replace(bar_size, " ", "_") \o dot_csv)

\* ---------------------------------------------------------- timestamps
\* str(bar.date).isdigit()
isdigit(d) == d \in {"1", "2"}

\* int(bar.date)
int_of(d) == CASE d = "1" -> 1 [] d = "2" -> 2

\* pd.to_datetime(<string>): the instant, or ParseError when it raises
ParseError == -1

to_datetime(d) ==
    CASE d = "1970-01-01 00:00:01" -> 1
      [] d = "1970-01-01 00:00:02" -> 2
      [] OTHER -> ParseError

\* the timestamp historicalData computes for bar.date (lines 26-33)
normalize(d) == IF isdigit(d) THEN int_of(d) ELSE to_datetime(d)

\* how to_csv writes a Timestamp cell
isoformat(ts) ==
    CASE ts = 1 -> "1970-01-01 00:00:01"
      [] ts = 2 -> "1970-01-01 00:00:02"

\* strftime("%Y-%m-%dT%H:%M:%S")
strftime(ts) ==
    CASE ts = 1 -> "1970-01-01T00:00:01"
      [] ts = 2 -> "1970-01-01T00:00:02"

\* ------------------------------------------------------------ feed inputs
Bar(d, o, h, l, c, v) ==
    [date |-> d, open |-> o, high |-> h, low |-> l, close |-> c, volume |-> v]

BarEvents ==
    { Bar("1", 10, 12, 9, 11, 100),
      Bar("2", 11, 13, 10, 12, 0),
      Bar("1970-01-01 00:00:01", 20, 22, 19, 21, 50),
      Bar("not-a-date", 10, 12, 9, 11, 100) }

ErrorEvents ==
    { [req_id |-> -1, code |-> 2104],
      [req_id |-> -1, code |-> 2106],
      [req_id |-> -1, code |-> 2158],
      [req_id |-> 1, code |-> 162] }

\* ------------------------------------------------------------ data frames
OHLCV == <<"open", "high", "low", "close", "volume">>

\* pd.DataFrame(self.data): a list of dicts gives their keys as columns, an
\* empty list gives a frame with no columns at all
DataFrame(rows) ==
    [columns |-> IF rows = <<>> THEN <<>> ELSE <<"date">> \o OHLCV,
     index |-> "RangeIndex",
     rows |-> rows]

HasColumn(df, c) == \E i \in DOMAIN df.columns : df.columns[i] = c

\* df.set_index('date', inplace=True), for a frame that has the column
set_index(df) ==
    [columns |-> OHLCV, index |-> "date", rows |-> df.rows]

IsAscending(rows) ==
    \A i \in 1..(Len(rows) - 1) : rows[i].date <= rows[i + 1].date

Reorderings(rows) ==
    { [i \in DOMAIN rows |-> rows[p[i]]] :
        p \in { q \in [DOMAIN rows -> DOMAIN rows] :
                  \A i, j \in DOMAIN rows : q[i] = q[j] => i = j } }

sort_index_skipped(df) == {df}

\* df.sort_index(inplace=True): the default sort is not stable, so rows with
\* equal index may come out in either order
sort_index(df) ==
    { [df EXCEPT !.rows = r] : r \in { s \in Reorderings(df.rows) : IsAscending(s) } }

\* ------------------------------------------------------------------ CSV
\* df.to_csv(path): header is the index name (empty for a RangeIndex) and
\* the columns; every row is the index cell followed by the column cells
cell(row, c) ==
    CASE c = "date" -> isoformat(row.date)
      [] c = "open" -> row.open
      [] c = "high" -> row.high
      [] c = "low" -> row.low
      [] c = "close" -> row.close
      [] c = "volume" -> row.volume

to_csv(df) ==
    [header |-> <<IF df.index = "date" THEN "date" ELSE "">> \o df.columns,
     rows |-> [i \in DOMAIN df.rows |->
                 <<IF df.index = "date" THEN isoformat(df.rows[i].date) ELSE i - 1>>
                 \o [k \in DOMAIN df.columns |-> cell(df.rows[i], df.columns[k])]]]

col_pos(header, c) == CHOOSE k \in DOMAIN header : header[k] = c

has_col(header, c) == \E k \in DOMAIN header : header[k] = c

\* one CSV line back to a record, dates parsed
parse_row(header, line) ==
    [date |-> to_datetime(line[col_pos(header, "date")]),
     open |-> line[col_pos(header, "open")],
     high |-> line[col_pos(header, "high")],
     low |-> line[col_pos(header, "low")],
     close |-> line[col_pos(header, "close")],
     volume |-> line[col_pos(header, "volume")]]

\* ---------------------------------------------------------------- state
VARIABLES
    script,      \* which program runs: "get_data" (Backend/get_data.py) or "main" (main.py)
    pc,          \* position of the caller flow
    waited,      \* get_data.py: seconds slept in the wait loop
    seen_done,   \* value of client._done at the last evaluation of the loop condition
    bgpc,        \* position of the background dispatch thread
    msg,         \* the message the dispatch thread took last and what its callback printed
    data,        \* client.data
    df,          \* client.df
    _done,       \* client._done
    delivered,   \* bar events the feed has delivered for the request, in arrival order
    ended,       \* the feed has sent the end-of-stream notification
    files,       \* the data folder: file name -> CSV content
    response,    \* last answer of the query service
    backtester   \* Backtester.raw_data and the value load_data returned

vars == <<script, pc, waited, seen_done, bgpc, msg, data, df, _done,
          delivered, ended, files, response, backtester>>

client_vars == <<data, df, _done>>
feed_vars == <<delivered, ended>>
caller_vars == <<pc, waited, seen_done>>
reader_vars == <<response, backtester>>

Init ==
    /\ script \in {"get_data", "main"}
    /\ pc = "reqHistoricalData"
    /\ waited = 0
    /\ seen_done = FALSE
    /\ bgpc = "run"
    /\ msg = [kind |-> "none", req_id |-> 0, code |-> 0, printed |-> ""]
    /\ data = <<>>
    /\ df = None
    /\ _done = FALSE
    /\ delivered = <<>>
    /\ ended = FALSE
    /\ files = <<>>
    /\ response = [symbol |-> <<>>, bar_size |-> <<>>, status |-> 0, body |-> <<>>]
    /\ backtester = [raw_data |-> None, ret |-> [value |-> FALSE, why |-> "not called"]]

requested == pc # "reqHistoricalData"

\* the dispatch thread is between two messages and the process is alive
dispatching ==
    /\ bgpc = "run"
    /\ ~(script = "get_data" /\ pc = "exit")

\* ----------------------------------------------- get_data.py: callbacks
printed_error(code) == code \notin INFORMATIONAL

error_sets_done(req_id, code) ==
    /\ script = "get_data"
    /\ dispatching
    /\ msg' = [kind |-> "error", req_id |-> req_id, code |-> code,
                printed |-> IF printed_error(code) THEN "Error" ELSE ""]
    /\ _done' = (_done \/ printed_error(code))
    /\ UNCHANGED <<script, bgpc, data, df, feed_vars, caller_vars, files, reader_vars>>

error(req_id, code) ==
    /\ script = "get_data"
    /\ dispatching
    /\ msg' = [kind |-> "error", req_id |-> req_id, code |-> code,
                printed |-> IF printed_error(code) THEN "Error" ELSE ""]
    /\ UNCHANGED <<script, bgpc, client_vars, feed_vars, caller_vars, files, reader_vars>>

\* client.data after historicalData(req_id, bar)
append_bar(d, bar) ==
    IF normalize(bar.date) = ParseError
    THEN d
    ELSE Append(d, [date |-> normalize(bar.date), open |-> bar.open,
                    high |-> bar.high, low |-> bar.low, close |-> bar.close,
                    volume |-> bar.volume])

historicalData(req_id, bar) ==
    /\ script = "get_data"
    /\ dispatching
    /\ requested
    /\ ~ended
    /\ Len(delivered) < MaxBars
    /\ delivered' = Append(delivered, bar)
    /\ msg' = [kind |-> "historicalData", req_id |-> req_id, code |-> 0,
                printed |-> IF normalize(bar.date) = ParseError
                            THEN "Date parsing error" ELSE ""]
    /\ data' = append_bar(data, bar)
    /\ UNCHANGED <<script, bgpc, df, _done, ended, caller_vars, files, reader_vars>>

\* lines 45-46
historicalDataEnd(req_id) ==
    /\ script = "get_data"
    /\ dispatching
    /\ requested
    /\ ~ended
    /\ ended' = TRUE
    /\ msg' = [kind |-> "historicalDataEnd", req_id |-> req_id, code |-> 0,
                printed |-> "Finished receiving data"]
    /\ df' = DataFrame(data)
    /\ bgpc' = "set_index"
    /\ UNCHANGED <<script, data, _done, delivered, caller_vars, files, reader_vars>>

\* line 47; KeyError when the frame has no 'date' column
historicalDataEnd_set_index ==
    /\ bgpc = "set_index"
    /\ ~(pc = "exit")
    /\ IF HasColumn(df, "date")
       THEN /\ df' = set_index(df)
            /\ bgpc' = "sort_index"
       ELSE /\ df' = df
            /\ bgpc' = "KeyError"
    /\ UNCHANGED <<script, msg, data, _done, feed_vars, caller_vars, files, reader_vars>>

\* line 48
historicalDataEnd_sort_index ==
    /\ bgpc = "sort_index"
    /\ ~(pc = "exit")
    /\ df' \in sort_index(df)
    /\ bgpc' = "set_done"
    /\ UNCHANGED <<script, msg, data, _done, feed_vars, caller_vars, files, reader_vars>>

\* line 49
historicalDataEnd_set_done ==
    /\ bgpc = "set_done"
    /\ ~(pc = "exit")
    /\ _done' = TRUE
    /\ bgpc' = "run"
    /\ UNCHANGED <<script, msg, data, df, feed_vars, caller_vars, files, reader_vars>>

\* An exception that leaves a callback is handled by the library's message
\* loop, which is not part of this repository: the thread either ends (this
\* step never happens) or goes on with the next message.
run_after_exception ==
    /\ bgpc = "KeyError"
    /\ ~(pc = "exit")
    /\ bgpc' = "run"
    /\ UNCHANGED <<script, msg, client_vars, feed_vars, caller_vars, files, reader_vars>>

\* ------------------------------------------- get_data.py: the caller flow
\* line 79
reqHistoricalData ==
    /\ script = "get_data"
    /\ pc = "reqHistoricalData"
    /\ pc' = "while"
    /\ UNCHANGED <<script, waited, seen_done, bgpc, msg, client_vars, feed_vars, files, reader_vars>>

while_cond_no_done(done, w) == w < timeout

\* the loop condition of line 94
while_cond(done, w) == ~done /\ w < timeout

wait_loop ==
    /\ script = "get_data"
    /\ pc = "while"
    /\ seen_done' = _done
    /\ pc' = IF while_cond(_done, waited) THEN "sleep" ELSE "disconnect"
    /\ UNCHANGED <<script, waited, bgpc, msg, client_vars, feed_vars, files, reader_vars>>

\* lines 95-96
sleep ==
    /\ script = "get_data"
    /\ pc = "sleep"
    /\ waited' = waited + 1
    /\ pc' = "while"
    /\ UNCHANGED <<script, seen_done, bgpc, msg, client_vars, feed_vars, files, reader_vars>>

\* line 98; messages already queued are still dispatched afterwards
disconnect ==
    /\ script = "get_data"
    /\ pc = "disconnect"
    /\ pc' = "persist"
    /\ UNCHANGED <<script, waited, seen_done, bgpc, msg, client_vars, feed_vars, files, reader_vars>>

\* line 100 and lines 103-104
persist ==
    /\ script = "get_data"
    /\ pc = "persist"
    /\ pc' = IF df # None THEN "to_csv" ELSE "exit"
    /\ UNCHANGED <<script, waited, seen_done, bgpc, msg, client_vars, feed_vars, files, reader_vars>>

\* lines 101-102
persist_to_csv ==
    /\ script = "get_data"
    /\ pc = "to_csv"
    /\ files' = (csv_filename :> to_csv(df)) @@ files
    /\ pc' = "exit"
    /\ UNCHANGED <<script, waited, seen_done, bgpc, msg, client_vars, feed_vars, reader_vars>>

\* ------------------------------------------------------ main.py: client
main_error(req_id, code) ==
    /\ script = "main"
    /\ dispatching
    /\ msg' = [kind |-> "error", req_id |-> req_id, code |-> code,
                printed |-> IF code \in INFORMATIONAL THEN "msg" ELSE "Error"]
    /\ UNCHANGED <<script, bgpc, client_vars, feed_vars, caller_vars, files, reader_vars>>

main_historicalData(req_id, bar) ==
    /\ script = "main"
    /\ dispatching
    /\ requested
    /\ ~ended
    /\ Len(delivered) < MaxBars
    /\ delivered' = Append(delivered, bar)
    /\ msg' = [kind |-> "historicalData", req_id |-> req_id, code |-> 0, printed |-> "bar"]
    /\ UNCHANGED <<script, bgpc, client_vars, ended, caller_vars, files, reader_vars>>

main_historicalDataEnd(reqId) ==
    /\ script = "main"
    /\ dispatching
    /\ requested
    /\ ~ended
    /\ ended' = TRUE
    /\ msg' = [kind |-> "historicalDataEnd", req_id |-> reqId, code |-> 0,
                printed |-> "end of data"]
    /\ UNCHANGED <<script, bgpc, client_vars, delivered, caller_vars, files, reader_vars>>

\* lines 49-51
main_reqHistoricalData ==
    /\ script = "main"
    /\ pc = "reqHistoricalData"
    /\ pc' = "sleep"
    /\ UNCHANGED <<script, waited, seen_done, bgpc, msg, client_vars, feed_vars, files, reader_vars>>

\* line 53; the dispatch thread is not a daemon and outlives the script
main_sleep ==
    /\ script = "main"
    /\ pc = "sleep"
    /\ pc' = "exit"
    /\ UNCHANGED <<script, waited, seen_done, bgpc, msg, client_vars, feed_vars, files, reader_vars>>

\* --------------------------------------------- readers of the data folder
\* The folder changes only in persist_to_csv; the readers are run on the
\* folder the finished acquisition script left behind.
acquisition_over == script = "get_data" /\ pc = "exit"

exists(path) == path \in DOMAIN files

QuerySymbols == { <<"a", "a", "p", "l">>, <<"A", "A", "P", "L", "_", "5", "_", "D">> }

QueryBarSizes == { <<"1", " ", "h", "o", "u", "r">> }

\* app.py lines 25-27
app_filepath(sym, bs) ==
    path_join(DATA_FOLDER, upper(sym) \o <<"_">> \o replace(bs, " ", "_") \o dot_csv)

\* app.py lines 32-34 on a file that has every column it selects
app_records(csv) ==
    [i \in DOMAIN csv.rows |->
        [time |-> strftime(parse_row(csv.header, csv.rows[i]).date),
         open |-> parse_row(csv.header, csv.rows[i]).open,
         high |-> parse_row(csv.header, csv.rows[i]).high,
         low |-> parse_row(csv.header, csv.rows[i]).low,
         close |-> parse_row(csv.header, csv.rows[i]).close,
         volume |-> parse_row(csv.header, csv.rows[i]).volume]]

has_all_columns(header) ==
    \A k \in DOMAIN OHLCV : has_col(header, OHLCV[k])

\* the answer of GET /data/{symbol}?bar_size=...
app_answer(sym, bs) ==
    IF ~exists(app_filepath(sym, bs))
    THEN [status |-> 404, body |-> <<>>]
    ELSE IF ~has_col(files[app_filepath(sym, bs)].header, "date")
              \/ ~has_all_columns(files[app_filepath(sym, bs)].header)
         THEN [status |-> 500, body |-> <<>>]
         ELSE [status |-> 200, body |-> app_records(files[app_filepath(sym, bs)])]

get_data(sym, bs) ==
    /\ acquisition_over
    /\ response' = [symbol |-> sym, bar_size |-> bs,
                    status |-> app_answer(sym, bs).status,
                    body |-> app_answer(sym, bs).body]
    /\ UNCHANGED <<script, caller_vars, bgpc, msg, client_vars, feed_vars, files, backtester>>

\* backtester.py lines 42-45 (symbol upper-cased in __init__, line 24)
load_filename(sym, bs) ==
    path_join(folder, upper(sym) \o <<"_">> \o replace(bs, " ", "_") \o dot_csv)

\* pd.read_csv(csv_filename, index_col="date", parse_dates=True)
read_csv(csv) ==
    [columns |-> SelectSeq(csv.header, LAMBDA c : c # "date"),
     index |-> "date",
     rows |-> [i \in DOMAIN csv.rows |-> parse_row(csv.header, csv.rows[i])]]

\* close / close.iloc[0] - 1, each value kept as the fraction
\* (close[i] - close[0]) / close[0]
returns(rows) ==
    [i \in DOMAIN rows |-> [num |-> rows[i].close - rows[1].close, den |-> rows[1].close]]

with_returns(frame) ==
    [columns |-> Append(frame.columns, "returns"),
     index |-> frame.index,
     rows |-> frame.rows,
     returns |-> returns(frame.rows)]

\* the outcomes of load_data for the file it looks for: raw_data and the
\* returned value
load_outcomes(sym, bs) ==
    IF ~exists(load_filename(sym, bs))
    THEN { [raw_data |-> backtester.raw_data, ret |-> [value |-> FALSE, why |-> "FileNotFoundError"]] }
    ELSE IF ~has_col(files[load_filename(sym, bs)].header, "date")
         THEN { [raw_data |-> backtester.raw_data, ret |-> [value |-> FALSE, why |-> "ValueError"]] }
         ELSE { IF f.rows = <<>>
                THEN [raw_data |-> f, ret |-> [value |-> FALSE, why |-> "IndexError"]]
                ELSE [raw_data |-> with_returns(f), ret |-> [value |-> TRUE, why |-> "loaded"]]
                : f \in sort_index(read_csv(files[load_filename(sym, bs)])) }

load_data(sym, bs) ==
    /\ acquisition_over
    /\ backtester' \in load_outcomes(sym, bs)
    /\ UNCHANGED <<script, caller_vars, bgpc, msg, client_vars, feed_vars, files, response>>

Next ==
    \/ \E e \in ErrorEvents : (e.req_id = -1 \/ requested) /\ error(e.req_id, e.code)
    \/ \E bar \in BarEvents : historicalData(1, bar)
    \/ historicalDataEnd(1)
    \/ historicalDataEnd_set_index
    \/ historicalDataEnd_sort_index
    \/ historicalDataEnd_set_done
    \/ run_after_exception
    \/ reqHistoricalData
    \/ wait_loop
    \/ sleep
    \/ disconnect
    \/ persist
    \/ persist_to_csv
    \/ \E e \in ErrorEvents : (e.req_id = -1 \/ requested) /\ main_error(e.req_id, e.code)
    \/ \E bar \in BarEvents : main_historicalData(2, bar)
    \/ main_historicalDataEnd(2)
    \/ main_reqHistoricalData
    \/ main_sleep
    \/ \E sym \in QuerySymbols, bs \in QueryBarSizes : get_data(sym, bs)
    \/ \E sym \in QuerySymbols, bs \in QueryBarSizes : load_data(sym, bs)

Spec == Init /\ [][Next]_vars

\* the caller flow of get_data.py; the interpreter schedules the main thread
\* and time.sleep(1) returns
Caller ==
    \/ reqHistoricalData
    \/ wait_loop
    \/ sleep
    \/ disconnect
    \/ persist
    \/ persist_to_csv

LiveSpec == Init /\ [][Next]_vars /\ WF_vars(Caller)

\* ----------------------------------------------------------- properties
InEnd(p) == p \in {"set_index", "sort_index", "set_done"}

\* the rows historicalData makes of the parseable events of a sequence
RECURSIVE Parsed(_)
Parsed(ev) ==
    IF ev = <<>> THEN <<>>
    ELSE append_bar(Parsed(SubSeq(ev, 1, Len(ev) - 1)), ev[Len(ev)])

RowSet(rows) == { rows[i] : i \in DOMAIN rows }

Valid(ev) ==
    /\ \A i \in DOMAIN ev : normalize(ev[i].date) # ParseError
    /\ \A i, j \in DOMAIN ev : normalize(ev[i].date) = normalize(ev[j].date) => i = j

StrictlyAscending(rows) ==
    \A i \in 1..(Len(rows) - 1) : rows[i].date < rows[i + 1].date

IsFrame(x) == x # None

\* C1: client._done and client.df change only in steps of historicalDataEnd,
\* which the end-of-stream notification starts; bar events, error events and
\* wait-loop ticks leave both alone.
C1_OnlyEndOfStreamCompletes ==
    [][ (_done' # _done \/ df' # df)
          => /\ msg'.kind = "historicalDataEnd"
             /\ ended'
             /\ (InEnd(bgpc) \/ InEnd(bgpc')) ]_vars

C1_Witness ==
    /\ script = "get_data"
    /\ _done
    /\ IsFrame(df)
    /\ Len(delivered) = MaxBars
    /\ waited > 0

\* C2: a CSV file exists only if the wait loop ended with the request
\* complete (the loop condition read _done as true).
C2_AllOrNothing ==
    csv_filename \in DOMAIN files => seen_done

\* C3: for pairwise distinct, parseable bar events in any arrival order, the
\* assembled series (and the series load_data sorts again) holds exactly the
\* delivered bars, strictly ascending by timestamp.
C3_SortedExactly ==
    /\ (script = "get_data" /\ Valid(delivered) /\ (_done \/ bgpc = "set_done"))
         => /\ Len(df.rows) = Len(delivered)
            /\ RowSet(df.rows) = RowSet(Parsed(delivered))
            /\ StrictlyAscending(df.rows)
    /\ (Valid(delivered) /\ backtester.ret.value)
         => /\ Len(backtester.raw_data.rows) = Len(delivered)
            /\ RowSet(backtester.raw_data.rows) = RowSet(Parsed(delivered))
            /\ StrictlyAscending(backtester.raw_data.rows)

C3_Witness ==
    /\ _done
    /\ Len(delivered) = 2
    /\ Valid(delivered)
    /\ normalize(delivered[1].date) > normalize(delivered[2].date)
    /\ backtester.ret.value

\* C4: when two delivered events have the same normalized timestamp, the
\* assembled series has exactly one row at that timestamp and it carries the
\* fields of the later event.
C4_LastWriteWins ==
    _done =>
      \A i, j \in DOMAIN delivered :
         (i < j /\ normalize(delivered[i].date) # ParseError
                /\ normalize(delivered[i].date) = normalize(delivered[j].date)
                /\ \A k \in DOMAIN delivered :
                      k > j => normalize(delivered[k].date) # normalize(delivered[j].date))
           => /\ Cardinality({ r \in DOMAIN df.rows :
                                 df.rows[r].date = normalize(delivered[j].date) }) = 1
              /\ \A r \in DOMAIN df.rows :
                    df.rows[r].date = normalize(delivered[j].date)
                      => df.rows[r] = append_bar(<<>>, delivered[j])[1]

\* C5: once an error with a non-informational code and the request's
\* identifier has been dispatched, the wait loop does not go on sleeping: its
\* next poll ends the wait.
C5_ErrorEndsWait ==
    [][ (script = "get_data" /\ pc = "while" /\ msg.kind = "error"
            /\ msg.req_id = 1 /\ msg.code \notin {2104, 2106, 2158})
          => pc' # "sleep" ]_vars

\* C6: dispatching an error with code 2104, 2106 or 2158 leaves the buffer,
\* the series, the done flag and the feed position unchanged and prints no
\* "Error" line; a request that completes holds every parseable bar delivered.
C6_InformationalIgnored ==
    /\ [][ (msg'.kind = "error" /\ msg'.code \in {2104, 2106, 2158}
              /\ bgpc = "run" /\ bgpc' = "run")
             => /\ UNCHANGED <<data, df, _done, ended>>
                /\ msg'.printed # "Error" ]_vars
    /\ [](_done => /\ data = Parsed(delivered)
                   /\ RowSet(df.rows) = RowSet(data)
                   /\ Len(df.rows) = Len(data))

C6_Witness ==
    /\ script = "get_data"
    /\ msg.kind = "error"
    /\ msg.code = 2158
    /\ data # <<>>
    /\ ~ended
    /\ pc = "while"

\* C7: the wait loop leaves for disconnect exactly at the first poll that
\* finds the request complete or 30 ticks slept, never sleeps more than 30
\* ticks, and the caller always gets past disconnect.
C7_WaitTerminates ==
    /\ [][ (script = "get_data" /\ pc = "while" /\ pc' # "while")
             => (pc' = "disconnect" <=> (_done \/ waited >= 30)) ]_vars
    /\ [](waited <= 30)
    /\ [](pc = "disconnect" => (seen_done \/ waited = 30))
    /\ ((script = "get_data") ~> (pc \in {"persist", "to_csv", "exit"}))

C7_Witness ==
    /\ script = "get_data"
    /\ pc = "persist"
    /\ waited = 30
    /\ ~seen_done
    /\ delivered # <<>>

\* C8: an end-of-stream notification for a request without bars raises no
\* exception in the dispatch thread, and load_data of a series without rows
\* does not end in an error.
C8_EmptySeriesHandled ==
    /\ (ended /\ delivered = <<>>) => bgpc # "KeyError"
    /\ backtester.ret.why \notin {"IndexError", "ValueError"}

\* C9: a query for the acquisition's symbol and bar size returns the rows of
\* the persisted CSV when there is one, and 404 only when there is none.
C9_QueryFindsPersisted ==
    (response.status # 0 /\ upper(response.symbol) = symbol
        /\ replace(response.bar_size, " ", "_") = replace(bar_size, " ", "_"))
      => /\ csv_filename \in DOMAIN files => response.status = 200
         /\ response.status = 404 => csv_filename \notin DOMAIN files

\* C10: whenever the caller has seen _done true, and whenever it is about to
\* write client.df, the series is complete: indexed by date, sorted, holding
\* all accumulated bars, with the dispatch thread no longer inside
\* historicalDataEnd.
C10_NoHalfBuiltRead ==
    (seen_done \/ pc = "to_csv")
      => /\ IsFrame(df)
         /\ ~InEnd(bgpc)
         /\ bgpc # "KeyError"
         /\ df.index = "date"
         /\ IsAscending(df.rows)
         /\ Len(df.rows) = Len(data)

====
